---- MODULE Spec2Model ----
(***************************************************************************)
(* The SWAPI graph crawler of SWAPI.ipynb: six parameterized Cypher        *)
(* queries that merge one fetched JSON document into a Neo4j graph, the    *)
(* seeding loop over the seven films, and the drain loop that hydrates     *)
(* Placeholder nodes until none is left.                                   *)
(*                                                                         *)
(* A string is a sequence of one-character strings, so that Cypher's       *)
(* split() is computed and not assumed. A URL is a sequence of two tokens  *)
(* (collection, id). A node is <<label, key>>: MERGE matches on the label  *)
(* and the key property together. Relationships are kept with their        *)
(* multiplicity (a function from <<start, type, end>> to a count).         *)
(***************************************************************************)
EXTENDS Integers, Sequences, FiniteSets, TLC

VARIABLES
    graph,    \* the Neo4j store: [nodes, ph, props, rels]
    pc,       \* position of the notebook: "seed", "find", "body", "done", "raised", "upsert"
    i,        \* loop variable of the seeding loop (cell 27)
    label,    \* result.current["type"] of the drain loop
    url,      \* result.current["url"] of the drain loop
    world,    \* which source graph the remote API serves (fixed for a run)
    last,     \* history: params of the most recent graph.run of a CREATE_*_QUERY
    lastOk,   \* history: whether that graph.run committed (FALSE: it raised)
    prev,     \* history: the store just before that graph.run
    cycles,   \* history: number of drain-loop bodies started by a successful fetch
    failKey,  \* history: url whose fetch failed most recently
    fails,    \* history: number of consecutive failed fetches of failKey
    restarts, \* number of times the notebook was interrupted and run again from cell 27
    workers   \* further executions of cell 35 on the same store: [pc, label, url] each

vars ==
    <<graph, pc, i, label, url, world, last, lastOk, prev, cycles, failKey, fails,
      restarts, workers>>

----------------------------------------------------------------------------
(* Program constant: the seeding loop runs over range(1,8).                  *)

LastFilm == 7

(* Bounds: the number of documents inserted in a row when the upsert engine *)
(* is exercised on its own, and the number of consecutive failed fetches of *)
(* one url that are followed.                                               *)

MaxUpserts == 3
MaxFails == 3

(* Bounds: the number of interruptions followed by a run from the start,    *)
(* and the number of concurrent executions of the drain loop.               *)

MaxRestarts == 2
NumWorkers == 2

----------------------------------------------------------------------------
(* JSON values *)

Null == <<"null">>
NullList == <<Null>>      \* a null where a list is expected (split(null, ","))
NoUrl == <<"none">>

FilmUrl(n) == <<"films", ToString(n)>>
P1 == <<"people", "1">>
P2 == <<"people", "2">>
P3 == <<"people", "3">>
PL1 == <<"planets", "1">>
PL2 == <<"planets", "2">>
SP1 == <<"species", "1">>
S1 == <<"starships", "1">>
S2 == <<"starships", "2">>
V1 == <<"vehicles", "1">>
V2 == <<"vehicles", "2">>

\* Sample scalar strings: "a, b", "a,b", "a", "b", "".
StrAB == <<"a", ",", " ", "b">>
StrAcB == <<"a", ",", "b">>
StrA == <<"a">>
StrB == <<"b">>
StrEmpty == <<>>

\* A document with every field of the six document shapes. val stands for the
\* scalar attributes (name, height, title, ...) that the queries SET.
BlankDoc ==
    [kind |-> "none", url |-> NoUrl, val |-> "v0", homeworld |-> Null,
     species |-> <<>>, starships |-> <<>>, vehicles |-> <<>>,
     characters |-> <<>>, planets |-> <<>>,
     director |-> StrA, producer |-> StrA, climate |-> StrA, terrain |-> StrA,
     manufacturer |-> StrA, class |-> StrA,
     residents |-> <<>>, people |-> <<>>, pilots |-> <<>>, films |-> <<>>]

----------------------------------------------------------------------------
(* Cypher primitives, on a transaction tx = the store plus ok (no error     *)
(* raised so far) and rows (number of rows flowing into the next clause,    *)
(* 0 or 1 after WITH / WITH DISTINCT on the single bound entity).           *)

EmptyGraph == [nodes |-> {}, ph |-> {}, props |-> <<>>, rels |-> <<>>]

Begin(g) == [nodes |-> g.nodes, ph |-> g.ph, props |-> g.props, rels |-> g.rels,
             ok |-> TRUE, rows |-> 1]

Live(tx) == tx.ok /\ tx.rows > 0

RelCount(rels, r) == IF r \in DOMAIN rels THEN rels[r] ELSE 0

\* split(s, ","): the pieces of s between the separators; split(null) is null.
RECURSIVE split(_, _)
split(s, sep) ==
    IF s = Null THEN NullList
    ELSE IF \A k \in 1..Len(s) : s[k] # sep THEN <<s>>
    ELSE LET k == CHOOSE k \in 1..Len(s) :
                      s[k] = sep /\ \A j \in 1..(k - 1) : s[j] # sep
         IN  <<SubSeq(s, 1, k - 1)>> \o split(SubSeq(s, k + 1, Len(s)), sep)

\* MERGE (n:lbl {key}) with an optional ON CREATE SET n:Placeholder.
\* A null property value makes MERGE raise.
MergeNodeOnMatchToo(tx, lbl, key, onCreatePlaceholder) ==
    IF ~Live(tx) THEN tx
    ELSE IF key = Null THEN [tx EXCEPT !.ok = FALSE]
    ELSE [tx EXCEPT !.nodes = @ \cup {<<lbl, key>>},
                    !.ph = IF onCreatePlaceholder THEN @ \cup {<<lbl, key>>} ELSE @]

MergeNode(tx, lbl, key, onCreatePlaceholder) ==
    IF ~Live(tx) THEN tx
    ELSE IF key = Null THEN [tx EXCEPT !.ok = FALSE]
    ELSE IF <<lbl, key>> \in tx.nodes THEN tx
    ELSE [tx EXCEPT !.nodes = @ \cup {<<lbl, key>>},
                    !.ph = IF onCreatePlaceholder THEN @ \cup {<<lbl, key>>} ELSE @]

\* SET n.a = {a}, n.b = {b}, ...
SetProps(tx, n, val) ==
    IF ~Live(tx) THEN tx
    ELSE [tx EXCEPT !.props = (n :> val) @@ tx.props]

\* REMOVE n:Placeholder
RemovePlaceholder(tx, n) ==
    IF ~Live(tx) THEN tx
    ELSE [tx EXCEPT !.ph = @ \ {n}]

\* CREATE UNIQUE (a)-[:type]->(b): creates the relationship unless one exists.
CreateAlways(tx, a, type, b) ==
    IF ~Live(tx) THEN tx
    ELSE [tx EXCEPT !.rels = (<<a, type, b>> :> (RelCount(tx.rels, <<a, type, b>>) + 1)) @@ tx.rels]

CreateUnique(tx, a, type, b) ==
    IF ~Live(tx) THEN tx
    ELSE IF <<a, type, b>> \in DOMAIN tx.rels THEN tx
    ELSE [tx EXCEPT !.rels = (<<a, type, b>> :> 1) @@ tx.rels]

\* MERGE (t:lbl {key}) [ON CREATE SET t:Placeholder] CREATE UNIQUE between
\* self and t; outgoing: (self)-[:type]->(t), otherwise (t)-[:type]->(self).
\* MERGE ... CREATE UNIQUE without the MERGE of the target node.
MergeRelNoNode(tx, self, key, lbl, onCreatePlaceholder, type, outgoing) ==
    IF outgoing THEN CreateUnique(tx, self, type, <<lbl, key>>)
    ELSE CreateUnique(tx, <<lbl, key>>, type, self)

MergeRel(tx, self, key, lbl, onCreatePlaceholder, type, outgoing) ==
    LET t == MergeNode(tx, lbl, key, onCreatePlaceholder)
    IN  IF outgoing THEN CreateUnique(t, self, type, <<lbl, key>>)
        ELSE CreateUnique(t, <<lbl, key>>, type, self)

RECURSIVE ForEachRow(_, _, _, _, _, _, _)
ForEachRow(tx, self, list, lbl, onCreatePlaceholder, type, outgoing) ==
    IF list = <<>> THEN tx
    ELSE ForEachRow(MergeRel(tx, self, Head(list), lbl, onCreatePlaceholder, type, outgoing),
                    self, Tail(list), lbl, onCreatePlaceholder, type, outgoing)

\* UNWIND list AS x MERGE ... CREATE UNIQUE ... WITH DISTINCT self:
\* one row per element; an empty (or null) list leaves no row, and every
\* later clause of the query then runs on no row.
Unwind(tx, self, list, lbl, onCreatePlaceholder, type, outgoing) ==
    IF ~Live(tx) THEN tx
    ELSE IF list = NullList \/ list = <<>> THEN [tx EXCEPT !.rows = 0]
    ELSE ForEachRow(tx, self, list, lbl, onCreatePlaceholder, type, outgoing)

\* A store that keeps what a query wrote before it raised.
CommitPartial(g, tx) ==
    [nodes |-> tx.nodes, ph |-> tx.ph, props |-> tx.props, rels |-> tx.rels]

\* graph.run commits the auto-commit transaction, or raises and rolls back.
Commit(g, tx) ==
    IF tx.ok THEN [nodes |-> tx.nodes, ph |-> tx.ph, props |-> tx.props, rels |-> tx.rels]
    ELSE g

----------------------------------------------------------------------------
(* The six insert queries. Each takes the store and the params (the fetched *)
(* document) and returns the transaction it leaves.                         *)

\* The person query with a REMOVE home:Placeholder after the homeworld MERGE.
CREATE_PERSON_QUERY_HydratesHome(g, d) ==
    LET p  == <<"Person", d.url>>
        t1 == RemovePlaceholder(SetProps(MergeNode(Begin(g), "Person", d.url, FALSE), p, d.val), p)
        t2 == RemovePlaceholder(MergeRel(t1, p, d.homeworld, "Planet", TRUE, "IS_FROM", TRUE),
                                <<"Planet", d.homeworld>>)
        t3 == Unwind(t2, p, d.species, "Species", TRUE, "IS_SPECIES", TRUE)
        t4 == Unwind(t3, p, d.starships, "Starship", TRUE, "PILOTS", TRUE)
    IN  Unwind(t4, p, d.vehicles, "Vehicle", TRUE, "PILOTS", TRUE)

CREATE_PERSON_QUERY(g, d) ==
    LET p  == <<"Person", d.url>>
        t1 == RemovePlaceholder(SetProps(MergeNode(Begin(g), "Person", d.url, FALSE), p, d.val), p)
        t2 == MergeRel(t1, p, d.homeworld, "Planet", TRUE, "IS_FROM", TRUE)
        t3 == Unwind(t2, p, d.species, "Species", TRUE, "IS_SPECIES", TRUE)
        t4 == Unwind(t3, p, d.starships, "Starship", TRUE, "PILOTS", TRUE)
    IN  Unwind(t4, p, d.vehicles, "Vehicle", TRUE, "PILOTS", TRUE)

\* The film query without split(): the whole field names one Director/Producer.
CREATE_MOVIE_QUERY_NoSplit(g, d) ==
    LET f  == <<"Film", d.url>>
        t1 == SetProps(MergeNode(Begin(g), "Film", d.url, FALSE), f, d.val)
        t2 == MergeRel(t1, f, d.director, "Director", FALSE, "DIRECTED_BY", TRUE)
        t3 == MergeRel(t2, f, d.producer, "Producer", FALSE, "PRODUCED_BY", TRUE)
        t4 == Unwind(t3, f, d.characters, "Person", TRUE, "APPEARS_IN", FALSE)
        t5 == Unwind(t4, f, d.planets, "Planet", TRUE, "TAKES_PLACE_ON", TRUE)
        t6 == Unwind(t5, f, d.species, "Species", TRUE, "APPEARS_IN", FALSE)
        t7 == Unwind(t6, f, d.starships, "Starship", TRUE, "APPEARS_IN", FALSE)
    IN  Unwind(t7, f, d.vehicles, "Vehicle", TRUE, "APPEARS_IN", FALSE)

CREATE_MOVIE_QUERY(g, d) ==
    LET f  == <<"Film", d.url>>
        t1 == SetProps(MergeNode(Begin(g), "Film", d.url, FALSE), f, d.val)
        t2 == Unwind(t1, f, split(d.director, ","), "Director", FALSE, "DIRECTED_BY", TRUE)
        t3 == Unwind(t2, f, split(d.producer, ","), "Producer", FALSE, "PRODUCED_BY", TRUE)
        t4 == Unwind(t3, f, d.characters, "Person", TRUE, "APPEARS_IN", FALSE)
        t5 == Unwind(t4, f, d.planets, "Planet", TRUE, "TAKES_PLACE_ON", TRUE)
        t6 == Unwind(t5, f, d.species, "Species", TRUE, "APPEARS_IN", FALSE)
        t7 == Unwind(t6, f, d.starships, "Starship", TRUE, "APPEARS_IN", FALSE)
    IN  Unwind(t7, f, d.vehicles, "Vehicle", TRUE, "APPEARS_IN", FALSE)

\* The planet query with ON CREATE SET :Placeholder on its Climate nodes.
CREATE_PLANET_QUERY_TagPlaceholder(g, d) ==
    LET p  == <<"Planet", d.url>>
        t1 == RemovePlaceholder(SetProps(MergeNode(Begin(g), "Planet", d.url, FALSE), p, d.val), p)
        t2 == Unwind(t1, p, split(d.climate, ","), "Climate", TRUE, "HAS_CLIMATE", TRUE)
    IN  Unwind(t2, p, split(d.terrain, ","), "Terrain", FALSE, "HAS_TERRAIN", TRUE)

CREATE_PLANET_QUERY(g, d) ==
    LET p  == <<"Planet", d.url>>
        t1 == RemovePlaceholder(SetProps(MergeNode(Begin(g), "Planet", d.url, FALSE), p, d.val), p)
        t2 == Unwind(t1, p, split(d.climate, ","), "Climate", FALSE, "HAS_CLIMATE", TRUE)
    IN  Unwind(t2, p, split(d.terrain, ","), "Terrain", FALSE, "HAS_TERRAIN", TRUE)

\* The species query merging on a label other than the one its stubs carry.
CREATE_SPECIES_QUERY_OtherLabel(g, d) ==
    LET s == <<"Specie", d.url>>
    IN  RemovePlaceholder(SetProps(MergeNode(Begin(g), "Specie", d.url, FALSE), s, d.val), s)

CREATE_SPECIES_QUERY(g, d) ==
    LET s == <<"Species", d.url>>
    IN  RemovePlaceholder(SetProps(MergeNode(Begin(g), "Species", d.url, FALSE), s, d.val), s)

CREATE_STARSHIP_QUERY(g, d) ==
    LET s  == <<"Starship", d.url>>
        t1 == RemovePlaceholder(SetProps(MergeNode(Begin(g), "Starship", d.url, FALSE), s, d.val), s)
        t2 == MergeRel(t1, s, d.manufacturer, "Manufacturer", FALSE, "MANUFACTURED_BY", TRUE)
    IN  MergeRel(t2, s, d.class, "StarshipClass", FALSE, "IS_CLASS", TRUE)

CREATE_VEHICLE_QUERY(g, d) ==
    LET v  == <<"Vehicle", d.url>>
        t1 == RemovePlaceholder(SetProps(MergeNode(Begin(g), "Vehicle", d.url, FALSE), v, d.val), v)
        t2 == MergeRel(t1, v, d.manufacturer, "Manufacturer", FALSE, "MANUFACTURED_BY", TRUE)
    IN  MergeRel(t2, v, d.class, "VehicleClass", FALSE, "IS_CLASS", TRUE)

\* getQueryForLabel: the query for a label, or ValueError.
getQueryForLabel(lbl) ==
    IF lbl = "Vehicle" THEN "CREATE_VEHICLE_QUERY"
    ELSE IF lbl = "Species" THEN "CREATE_SPECIES_QUERY"
    ELSE IF lbl = "Person" THEN "CREATE_PERSON_QUERY"
    ELSE IF lbl = "Starship" THEN "CREATE_STARSHIP_QUERY"
    ELSE IF lbl = "Planet" THEN "CREATE_PLANET_QUERY"
    ELSE "ValueError"

\* graph.run(query, params): the transaction the named query leaves.
Run(g, query, d) ==
    IF query = "CREATE_VEHICLE_QUERY" THEN CREATE_VEHICLE_QUERY(g, d)
    ELSE IF query = "CREATE_SPECIES_QUERY" THEN CREATE_SPECIES_QUERY(g, d)
    ELSE IF query = "CREATE_PERSON_QUERY" THEN CREATE_PERSON_QUERY(g, d)
    ELSE IF query = "CREATE_STARSHIP_QUERY" THEN CREATE_STARSHIP_QUERY(g, d)
    ELSE IF query = "CREATE_PLANET_QUERY" THEN CREATE_PLANET_QUERY(g, d)
    ELSE IF query = "CREATE_MOVIE_QUERY" THEN CREATE_MOVIE_QUERY(g, d)
    ELSE [Begin(g) EXCEPT !.ok = FALSE]

\* The query that inserts a document of a kind: the film query for the seeds,
\* getQueryForLabel for every other kind.
QueryOf(kind) == IF kind = "Film" THEN "CREATE_MOVIE_QUERY" ELSE getQueryForLabel(kind)

\* upsert(K, D): the store after graph.run of K's query with params D.
Upsert(g, d) == Commit(g, Run(g, QueryOf(d.kind), d))
UpsertOk(g, d) == Run(g, QueryOf(d.kind), d).ok

----------------------------------------------------------------------------
(* The remote API: the document served for a url, in each source graph.     *)
(* "clean": every reference is also reachable through a film or a person.   *)
(* "resident": planet 2 lists a resident (people/3) that is in no film.     *)
(* "nospecies": people/2 has an empty species list.                         *)
(* "nohome": people/2 has a null homeworld.                                 *)
(* "small": the films list people/1 only; used where several drain loops    *)
(* run at once.                                                             *)

Worlds == {"clean", "resident", "nospecies", "nohome"}

FilmUrls == {FilmUrl(n) : n \in 1..LastFilm}

Source(w, u) ==
    IF w = "small" /\ u \in FilmUrls THEN
        [BlankDoc EXCEPT !.kind = "Film", !.url = u, !.val = "v1",
            !.director = StrA, !.producer = StrAcB, !.characters = <<P1>>]
    ELSE IF u = FilmUrl(1) THEN
        [BlankDoc EXCEPT !.kind = "Film", !.url = u, !.val = "v1",
            !.director = StrAB, !.producer = StrA,
            !.characters = <<P1, P2>>, !.planets = <<PL1>>, !.species = <<SP1>>,
            !.starships = <<S1>>, !.vehicles = <<V1>>]
    ELSE IF u \in FilmUrls THEN
        [BlankDoc EXCEPT !.kind = "Film", !.url = u, !.val = "v2",
            !.director = StrA, !.producer = StrAcB,
            !.characters = <<P2>>, !.planets = <<PL1>>, !.species = <<SP1>>,
            !.starships = <<S1>>, !.vehicles = <<V1>>]
    ELSE IF u = P1 THEN
        [BlankDoc EXCEPT !.kind = "Person", !.url = u, !.val = "v1",
            !.homeworld = PL1, !.species = <<SP1>>, !.starships = <<S1>>,
            !.vehicles = <<V1>>, !.films = <<FilmUrl(1)>>]
    ELSE IF u = P2 THEN
        [BlankDoc EXCEPT !.kind = "Person", !.url = u, !.val = "v2",
            !.homeworld = IF w = "nohome" THEN Null ELSE PL2,
            !.species = IF w = "nospecies" THEN <<>> ELSE <<SP1>>,
            !.starships = <<S2, S2>>, !.vehicles = <<V1, V2>>,
            !.films = <<FilmUrl(1), FilmUrl(2)>>]
    ELSE IF u = P3 THEN
        [BlankDoc EXCEPT !.kind = "Person", !.url = u, !.val = "v1",
            !.homeworld = PL2, !.species = <<SP1>>, !.starships = <<S1>>,
            !.vehicles = <<V1>>]
    ELSE IF u = PL1 THEN
        [BlankDoc EXCEPT !.kind = "Planet", !.url = u, !.val = "v1",
            !.climate = StrAB, !.terrain = StrA, !.residents = <<P1>>,
            !.films = <<FilmUrl(1), FilmUrl(2)>>]
    ELSE IF u = PL2 THEN
        [BlankDoc EXCEPT !.kind = "Planet", !.url = u, !.val = "v2",
            !.climate = StrB, !.terrain = StrAB,
            !.residents = IF w = "resident" THEN <<P2, P3>> ELSE <<P2>>]
    ELSE IF u = SP1 THEN
        [BlankDoc EXCEPT !.kind = "Species", !.url = u, !.val = "v1",
            !.homeworld = Null, !.people = <<P1, P2>>, !.films = <<FilmUrl(1)>>]
    ELSE IF u = S1 THEN
        [BlankDoc EXCEPT !.kind = "Starship", !.url = u, !.val = "v1",
            !.manufacturer = StrAcB, !.class = StrA, !.pilots = <<P1>>,
            !.films = <<FilmUrl(1)>>]
    ELSE IF u = S2 THEN
        [BlankDoc EXCEPT !.kind = "Starship", !.url = u, !.val = "v2",
            !.manufacturer = StrA, !.class = StrB, !.pilots = <<P2>>]
    ELSE IF u = V1 THEN
        [BlankDoc EXCEPT !.kind = "Vehicle", !.url = u, !.val = "v1",
            !.manufacturer = StrAB, !.class = StrA, !.films = <<FilmUrl(1)>>]
    ELSE
        [BlankDoc EXCEPT !.kind = "Vehicle", !.url = u, !.val = "v2",
            !.manufacturer = StrB, !.class = StrA, !.pilots = <<P2>>]

----------------------------------------------------------------------------
(* The notebook: cell 27 (seeding) and cell 35 (drain loop).                *)

\* Every further execution of cell 35 at its first FIND_NEW_ENTITY_QUERY.
NoWorkers == [w \in 1..NumWorkers |-> [pc |-> "find", label |-> "none", url |-> NoUrl]]

Init ==
    /\ graph = EmptyGraph
    /\ pc = "seed"
    /\ i = 1
    /\ label = "none"
    /\ url = NoUrl
    /\ world \in Worlds
    /\ last = BlankDoc
    /\ lastOk = TRUE
    /\ prev = EmptyGraph
    /\ cycles = 0
    /\ failKey = NoUrl
    /\ fails = 0
    /\ restarts = 0
    /\ workers = NoWorkers

\* The seeding loop over range(1,7): it ends one film early.
SeedFilmShort ==
    /\ pc = "seed"
    /\ i < LastFilm
    /\ LET d  == Source(world, FilmUrl(i))
           tx == Run(graph, "CREATE_MOVIE_QUERY", d)
       IN  /\ graph' = Commit(graph, tx)
           /\ last' = d
           /\ lastOk' = tx.ok
           /\ prev' = graph
           /\ i' = IF tx.ok THEN i + 1 ELSE i
           /\ pc' = IF ~tx.ok THEN "raised" ELSE IF i = LastFilm - 1 THEN "find" ELSE "seed"
    /\ UNCHANGED <<label, url, world, cycles, failKey, fails, restarts, workers>>

\* for i in range(1,8): fetch film i and run CREATE_MOVIE_QUERY with it.
SeedFilm ==
    /\ pc = "seed"
    /\ i <= LastFilm
    /\ LET d  == Source(world, FilmUrl(i))
           tx == Run(graph, "CREATE_MOVIE_QUERY", d)
       IN  /\ graph' = Commit(graph, tx)
           /\ last' = d
           /\ lastOk' = tx.ok
           /\ prev' = graph
           /\ i' = IF tx.ok THEN i + 1 ELSE i
           /\ pc' = IF ~tx.ok THEN "raised" ELSE IF i = LastFilm THEN "find" ELSE "seed"
    /\ UNCHANGED <<label, url, world, cycles, failKey, fails, restarts, workers>>

\* labels(p) of a Placeholder node: its own label and Placeholder, in the
\* order the store happens to return them.
labels(n) == {<<n[1], "Placeholder">>, <<"Placeholder", n[1]>>}

\* CASE WHEN head(labels(p)) = "Placeholder" THEN labels(p)[1]
\* ELSE head(labels(p)) END AS type   (Cypher lists are indexed from 0)
TypeOfHead(ls) == Head(ls)

TypeOf(ls) == IF Head(ls) = "Placeholder" THEN ls[2] ELSE Head(ls)

\* FIND_NEW_ENTITY_QUERY returns one Placeholder node, chosen at random:
\* its url and its label other than Placeholder.
FindOne ==
    /\ pc = "find"
    /\ \E n \in graph.ph : \E ls \in labels(n) :
        /\ label' = TypeOf(ls)
        /\ url' = n[2]
    /\ pc' = "body"
    /\ UNCHANGED <<graph, i, world, last, lastOk, prev, cycles, failKey, fails, restarts, workers>>

\* The query returns no row when no node has the Placeholder label:
\* result.forward() is False and the while loop ends.
FindNoneNoPerson ==
    /\ pc = "find"
    /\ \A n \in graph.ph : n[1] # "Person"
    /\ pc' = "done"
    /\ UNCHANGED <<graph, i, label, url, world, last, lastOk, prev, cycles, failKey, fails, restarts, workers>>

FindNone ==
    /\ pc = "find"
    /\ graph.ph = {}
    /\ pc' = "done"
    /\ UNCHANGED <<graph, i, label, url, world, last, lastOk, prev, cycles, failKey, fails, restarts, workers>>

\* The loop body with a fetch that succeeds: requests.get(url), r.json(),
\* graph.run(getQueryForLabel(label), params). An exception of
\* getQueryForLabel or of graph.run leaves the loop.
Body ==
    /\ pc = "body"
    /\ LET d  == Source(world, url)
           tx == Run(graph, getQueryForLabel(label), d)
       IN  /\ graph' = Commit(graph, tx)
           /\ last' = d
           /\ lastOk' = tx.ok
           /\ prev' = graph
           /\ pc' = IF tx.ok THEN "find" ELSE "raised"
    /\ cycles' = cycles + 1
    /\ failKey' = IF failKey = url THEN NoUrl ELSE failKey
    /\ fails' = IF failKey = url THEN 0 ELSE fails
    /\ UNCHANGED <<i, label, url, world, restarts, workers>>

\* The loop body with a fetch that fails: requests.get raises (network
\* error) or r.json() raises (no JSON body); nothing catches it.
FetchFail ==
    /\ pc = "body"
    /\ (failKey = url) => (fails < MaxFails)
    /\ failKey' = url
    /\ fails' = IF failKey = url THEN fails + 1 ELSE 1
    /\ pc' = "raised"
    /\ UNCHANGED <<graph, i, label, url, world, last, lastOk, prev, cycles, restarts, workers>>

\* Cell 35 is executed again after it raised.
Rerun ==
    /\ pc = "raised"
    /\ i > LastFilm
    /\ pc' = "find"
    /\ UNCHANGED <<graph, i, label, url, world, last, lastOk, prev, cycles, failKey, fails, restarts, workers>>

Next == SeedFilm \/ FindOne \/ FindNone \/ Body

Spec == Init /\ [][Next]_vars

\* The same notebook against an API whose requests may fail.
InitFail == Init /\ world = "clean"

NextFail == SeedFilm \/ FindOne \/ FindNone \/ Body \/ FetchFail \/ Rerun

SpecFail == InitFail /\ [][NextFail]_vars

\* The notebook is interrupted between two seed upserts or between two
\* drain cycles, and run again from cell 27 on the same store.
Restart ==
    /\ \/ pc = "find"
       \/ (pc = "seed" /\ i > 1)
    /\ restarts < MaxRestarts
    /\ restarts' = restarts + 1
    /\ pc' = "seed"
    /\ i' = 1
    /\ label' = "none"
    /\ url' = NoUrl
    /\ UNCHANGED <<graph, world, last, lastOk, prev, cycles, failKey, fails, workers>>

NextRestart == SeedFilm \/ FindOne \/ FindNone \/ Body \/ Restart

SpecRestart == Init /\ [][NextRestart]_vars

\* The notebook on a store that already holds a Placeholder node of a label
\* getQueryForLabel has no query for.
ForeignGraph ==
    [EmptyGraph EXCEPT !.nodes = {<<"Film", FilmUrl(1)>>},
                       !.ph = {<<"Film", FilmUrl(1)>>}]

InitForeign ==
    /\ graph \in {EmptyGraph, ForeignGraph}
    /\ pc = "seed"
    /\ i = 1
    /\ label = "none"
    /\ url = NoUrl
    /\ world = "clean"
    /\ last = BlankDoc
    /\ lastOk = TRUE
    /\ prev = graph
    /\ cycles = 0
    /\ failKey = NoUrl
    /\ fails = 0
    /\ restarts = 0
    /\ workers = NoWorkers

SpecForeign == InitForeign /\ [][Next]_vars

\* Cell 35 executed by NumWorkers workers at once on the store the seeding
\* left: each query is one transaction, a fetch touches no store.
WFindOne(w) ==
    /\ pc = "find"
    /\ workers[w].pc = "find"
    /\ \E n \in graph.ph : \E ls \in labels(n) :
        workers' = [workers EXCEPT ![w] = [pc |-> "body", label |-> TypeOf(ls), url |-> n[2]]]
    /\ UNCHANGED <<graph, pc, i, label, url, world, last, lastOk, prev, cycles,
                   failKey, fails, restarts>>

WFindNone(w) ==
    /\ pc = "find"
    /\ workers[w].pc = "find"
    /\ graph.ph = {}
    /\ workers' = [workers EXCEPT ![w].pc = "done"]
    /\ UNCHANGED <<graph, pc, i, label, url, world, last, lastOk, prev, cycles,
                   failKey, fails, restarts>>

WBody(w) ==
    /\ pc = "find"
    /\ workers[w].pc = "body"
    /\ LET d  == Source(world, workers[w].url)
           tx == Run(graph, getQueryForLabel(workers[w].label), d)
       IN  /\ graph' = Commit(graph, tx)
           /\ workers' = [workers EXCEPT ![w].pc = IF tx.ok THEN "find" ELSE "raised"]
    /\ cycles' = cycles + 1
    /\ UNCHANGED <<pc, i, label, url, world, last, lastOk, prev, failKey, fails, restarts>>

NextWorkers ==
    \/ SeedFilm
    \/ \E w \in 1..NumWorkers : WFindOne(w) \/ WFindNone(w) \/ WBody(w)

InitWorkers ==
    /\ graph = EmptyGraph
    /\ pc = "seed"
    /\ i = 1
    /\ label = "none"
    /\ url = NoUrl
    /\ world = "small"
    /\ last = BlankDoc
    /\ lastOk = TRUE
    /\ prev = EmptyGraph
    /\ cycles = 0
    /\ failKey = NoUrl
    /\ fails = 0
    /\ restarts = 0
    /\ workers = NoWorkers

SpecWorkers == InitWorkers /\ [][NextWorkers]_vars

----------------------------------------------------------------------------
(* The upsert engine on its own: any document of a bounded set is inserted, *)
(* in any order, by the query of its kind (graph.run(QUERY, params)).       *)

PersonDocs ==
    {[BlankDoc EXCEPT !.kind = "Person", !.url = P1, !.val = v, !.homeworld = h,
                      !.species = sp, !.starships = ss, !.vehicles = <<V1>>] :
        v \in {"v1", "v2"}, h \in {PL1, Null}, sp \in {<<>>, <<SP1>>},
        ss \in {<<>>, <<S1, S1>>}}

FilmDocs ==
    {[BlankDoc EXCEPT !.kind = "Film", !.url = FilmUrl(1), !.val = "v1",
                      !.director = dir, !.producer = StrAcB, !.characters = ch,
                      !.planets = <<PL1>>, !.species = <<SP1>>,
                      !.starships = <<S1>>, !.vehicles = <<V1>>] :
        dir \in {StrAB, StrAcB, StrEmpty, Null}, ch \in {<<>>, <<P1>>}}

PlanetDocs ==
    {[BlankDoc EXCEPT !.kind = "Planet", !.url = PL1, !.val = "v1",
                      !.climate = c, !.terrain = StrB, !.residents = r] :
        c \in {StrAB, StrA, StrEmpty}, r \in {<<>>, <<P1>>}}

SpeciesDocs ==
    {[BlankDoc EXCEPT !.kind = "Species", !.url = SP1, !.val = "v1",
                      !.homeworld = h, !.people = <<P1>>] :
        h \in {Null, PL1}}

StarshipDocs ==
    {[BlankDoc EXCEPT !.kind = "Starship", !.url = S1, !.val = "v1",
                      !.manufacturer = m, !.class = StrA, !.pilots = <<P1>>] :
        m \in {StrAcB, StrA}}

VehicleDocs ==
    {[BlankDoc EXCEPT !.kind = "Vehicle", !.url = V1, !.val = "v1",
                      !.manufacturer = StrAcB, !.class = StrB]}

\* Documents without the url field: the {url} parameter of the MERGE is null.
NoKeyDocs ==
    {[BlankDoc EXCEPT !.kind = k, !.url = Null, !.val = "v1", !.homeworld = PL1,
                      !.manufacturer = StrA, !.class = StrA] :
        k \in {"Person", "Vehicle"}}

UpsertDocs ==
    PersonDocs \cup FilmDocs \cup PlanetDocs \cup SpeciesDocs \cup StarshipDocs
        \cup VehicleDocs \cup NoKeyDocs

InitUpsert ==
    /\ graph = EmptyGraph
    /\ pc = "upsert"
    /\ i = 1
    /\ label = "none"
    /\ url = NoUrl
    /\ world = "clean"
    /\ last = BlankDoc
    /\ lastOk = TRUE
    /\ prev = EmptyGraph
    /\ cycles = 0
    /\ failKey = NoUrl
    /\ fails = 0
    /\ restarts = 0
    /\ workers = NoWorkers

UpsertAny ==
    /\ pc = "upsert"
    /\ cycles < MaxUpserts
    /\ \E d \in UpsertDocs :
        /\ graph' = Upsert(graph, d)
        /\ last' = d
        /\ lastOk' = UpsertOk(graph, d)
        /\ prev' = graph
    /\ cycles' = cycles + 1
    /\ UNCHANGED <<pc, i, label, url, world, failKey, fails, restarts, workers>>

SpecUpsert == InitUpsert /\ [][UpsertAny]_vars

\* The upsert engine on a store that already holds an unhydrated stub of
\* each kind, at the urls of the documents.
StubGraph ==
    LET stubs == {<<"Film", FilmUrl(1)>>, <<"Person", P1>>, <<"Planet", PL1>>,
                  <<"Species", SP1>>, <<"Starship", S1>>, <<"Vehicle", V1>>}
    IN  [EmptyGraph EXCEPT !.nodes = stubs, !.ph = stubs]

InitStubs ==
    /\ graph = StubGraph
    /\ pc = "upsert"
    /\ i = 1
    /\ label = "none"
    /\ url = NoUrl
    /\ world = "clean"
    /\ last = BlankDoc
    /\ lastOk = TRUE
    /\ prev = StubGraph
    /\ cycles = 0
    /\ failKey = NoUrl
    /\ fails = 0
    /\ restarts = 0
    /\ workers = NoWorkers

SpecStubs == InitStubs /\ [][UpsertAny]_vars

----------------------------------------------------------------------------
(* Vocabulary of the properties                                             *)

Range(seq) == {seq[k] : k \in 1..Len(seq)}

SelfOf(d) == <<d.kind, d.url>>

\* The reference fields each query declares: field, target label,
\* relationship type, and direction (outgoing: from the document's entity).
Declared(kind) ==
    IF kind = "Person" THEN
        {<<"homeworld", "Planet", "IS_FROM", TRUE>>,
         <<"species", "Species", "IS_SPECIES", TRUE>>,
         <<"starships", "Starship", "PILOTS", TRUE>>,
         <<"vehicles", "Vehicle", "PILOTS", TRUE>>}
    ELSE IF kind = "Film" THEN
        {<<"characters", "Person", "APPEARS_IN", FALSE>>,
         <<"planets", "Planet", "TAKES_PLACE_ON", TRUE>>,
         <<"species", "Species", "APPEARS_IN", FALSE>>,
         <<"starships", "Starship", "APPEARS_IN", FALSE>>,
         <<"vehicles", "Vehicle", "APPEARS_IN", FALSE>>}
    ELSE {}

\* Every field of a document of the kind that holds urls of other resources.
ReferenceFields(kind) ==
    IF kind = "Person" THEN {"homeworld", "species", "starships", "vehicles", "films"}
    ELSE IF kind = "Film" THEN {"characters", "planets", "species", "starships", "vehicles"}
    ELSE IF kind = "Planet" THEN {"residents", "films"}
    ELSE IF kind = "Species" THEN {"homeworld", "people", "films"}
    ELSE IF kind \in {"Starship", "Vehicle"} THEN {"pilots", "films"}
    ELSE {}

\* The urls a reference field of a document lists (a single reference is a
\* list of one, a null reference a list of none).
Targets(d, f) ==
    IF f = "homeworld" THEN (IF d.homeworld = Null THEN {} ELSE {d.homeworld})
    ELSE Range(d[f])

AllRefs(d) == UNION {Targets(d, f) : f \in ReferenceFields(d.kind)}

\* The urls reachable from the seed films through reference fields.
RECURSIVE Closure(_, _)
Closure(S, w) ==
    LET more == S \cup UNION {AllRefs(Source(w, u)) : u \in S}
    IN  IF more = S THEN S ELSE Closure(more, w)

Discoverable(w) == Closure(FilmUrls, w)

Hydrated(g, u) == \E n \in g.nodes : n[2] = u /\ n \notin g.ph

\* The names a delimiter-separated string holds: its maximal comma-free
\* substrings.
Names(s) ==
    {SubSeq(s, a, b) : <<a, b>> \in
        {ab \in (1..(Len(s) + 1)) \X (0..Len(s)) :
            /\ ab[1] <= ab[2] + 1
            /\ (ab[1] = 1 \/ s[ab[1] - 1] = ",")
            /\ (ab[2] = Len(s) \/ s[ab[2] + 1] = ",")
            /\ \A k \in ab[1]..ab[2] : s[k] # ","}}

CommaCount(s) == Cardinality({k \in 1..Len(s) : s[k] = ","})

----------------------------------------------------------------------------
(* Properties                                                               *)

\* C1: idempotence of upsert. In every state reached by inserting documents,
\* running the query of the most recent document once more with the same
\* params leaves the store (nodes, Placeholder labels, properties and
\* relationships with their multiplicity) exactly as it is.
C1_UpsertIdempotent == (last.kind # "none") => (Upsert(graph, last) = graph)

C1_Witness ==
    /\ pc = "upsert"
    /\ last.kind = "Person"
    /\ lastOk
    /\ last.species # <<>>
    /\ last.starships # <<>>
    /\ graph # prev

\* C2: monotonic hydration. No step of the notebook puts the Placeholder
\* label on a node that exists without it.
C2_HydrationMonotonic ==
    [][\A n \in graph.nodes : n \notin graph.ph => n \notin graph'.ph]_vars

\* A hydrated planet is referenced as homeworld by a later person document.
C2_Witness ==
    /\ last.kind = "Person"
    /\ lastOk
    /\ <<"Planet", last.homeworld>> \in prev.nodes \ prev.ph
    /\ <<"Planet", last.homeworld>> \in graph.nodes \ graph.ph

\* C3 (as claimed): with every fetch succeeding the drain loop ends in Done,
\* for every selection order, after at most F cycles, F the number of
\* discoverable urls: the notebook is either still running (seeding,
\* selecting, fetching) or Done, never stopped short of Done, and it has run
\* at most F cycles.
C3_ConvergesWithinF ==
    /\ pc \in {"seed", "find", "body", "done"}
    /\ cycles <= Cardinality(Discoverable(world))

\* C4: Done means drained. The drain loop has ended normally only in a state
\* where no node carries the Placeholder label.
C4_DoneMeansDrained == (pc = "done") => (graph.ph = {})

C4_Witness ==
    /\ pc = "done"
    /\ cycles > 0
    /\ Hydrated(graph, P2)
    /\ Hydrated(graph, PL2)

\* C5 (as claimed): at Done every url reachable from the seed films through
\* the reference fields of the source documents is a hydrated node.
C5_DiscoveryComplete ==
    (pc = "done") => (\A u \in Discoverable(world) : Hydrated(graph, u))

\* C6 (as claimed): right after a document is inserted, every url listed in
\* any of its reference fields is a node, and for the fields the queries
\* declare exactly one relationship of the declared type connects the
\* document's node and that target.
C6_ReferenceComplete ==
    (last.kind # "none" /\ lastOk) =>
        /\ \A f \in ReferenceFields(last.kind) : \A u \in Targets(last, f) :
               \E n \in graph.nodes : n[2] = u
        /\ \A r \in Declared(last.kind) : \A u \in Targets(last, r[1]) :
               /\ <<r[2], u>> \in graph.nodes
               /\ RelCount(graph.rels,
                      IF r[4] THEN <<SelfOf(last), r[3], <<r[2], u>>>>
                      ELSE <<<<r[2], u>>, r[3], SelfOf(last)>>) = 1

\* C7 (as claimed): inserting a Person or Species document whose homeworld is
\* null succeeds, leaves the document's node hydrated, and creates no Planet
\* node and no IS_FROM relationship.
C7_NullSafe ==
    (last.kind \in {"Person", "Species"} /\ last.homeworld = Null) =>
        /\ lastOk
        /\ SelfOf(last) \in graph.nodes \ graph.ph
        /\ {n \in graph.nodes : n[1] = "Planet"} = {n \in prev.nodes : n[1] = "Planet"}
        /\ {r \in DOMAIN graph.rels : r[2] = "IS_FROM"}
               = {r \in DOMAIN prev.rels : r[2] = "IS_FROM"}

C9_FailedExcluded ==
    (fails >= 3) =>
        /\ \A n \in graph.ph : n[2] # failKey
        /\ pc # "raised"

\* C10 (as claimed): a failed fetch never ends the drain loop: after it the
\* loop is still draining (selecting or fetching) or Done.
C10_FailureContained ==
    (failKey # NoUrl) => (pc \in {"find", "body", "done"})

\* The store an uninterrupted run of cell 27 then cell 35 by one worker
\* ends with, for a source graph: the seven films, then the Placeholder
\* nodes one at a time until none is left or a query raises.
RECURSIVE Seeded(_, _, _)
Seeded(g, w, n) ==
    IF n > LastFilm THEN g
    ELSE LET tx == Run(g, "CREATE_MOVIE_QUERY", Source(w, FilmUrl(n)))
         IN  IF tx.ok THEN Seeded(Commit(g, tx), w, n + 1) ELSE g

RECURSIVE Drained(_, _)
Drained(g, w) ==
    IF g.ph = {} THEN g
    ELSE LET n  == CHOOSE n \in g.ph : TRUE
             tx == Run(g, getQueryForLabel(n[1]), Source(w, n[2]))
         IN  IF tx.ok THEN Drained(Commit(g, tx), w) ELSE g

FinalGraph(w) == Drained(Seeded(EmptyGraph, w, 1), w)

\* The labels of the auxiliary tag nodes, and the collections of the API.
TagKinds ==
    {"Director", "Producer", "Manufacturer", "Climate", "Terrain",
     "StarshipClass", "VehicleClass"}

Collections == {"films", "people", "planets", "species", "starships", "vehicles"}

\* A node whose key is a url of the API (not a tag name).
IsUrlNode(n) == Len(n[2]) = 2 /\ n[2][1] \in Collections

\* C11: set-semantic relationships. In every state of seeding and draining
\* each <<start, type, end>> triple carries exactly one relationship, also
\* after a document that lists the same url twice in one field, and after
\* several documents assert the same triple.
C11_RelationshipsUnique == \A r \in DOMAIN graph.rels : graph.rels[r] = 1

\* people/2 lists starships/2 twice, and the seven films share characters.
C11_Witness ==
    /\ last.url = P2
    /\ lastOk
    /\ last.starships = <<S2, S2>>
    /\ RelCount(graph.rels, <<<<"Person", P2>>, "PILOTS", <<"Starship", S2>>>>) = 1
    /\ RelCount(graph.rels, <<<<"Person", P2>>, "APPEARS_IN", <<"Film", FilmUrl(2)>>>>) = 1

\* C12: no dangling relationships. In every state both ends of every
\* relationship are nodes of the store.
C12_NoDangling ==
    \A r \in DOMAIN graph.rels : r[1] \in graph.nodes /\ r[3] \in graph.nodes

\* A relationship ends at a node that is still a placeholder.
C12_Witness ==
    \E r \in DOMAIN graph.rels : r[3] \in graph.ph /\ r[1] \notin graph.ph

\* C13: key uniqueness. In every state at most one node holds a given url,
\* so no url is held by a placeholder and by a separate hydrated node, and
\* once the loop has hydrated the selected stub the node it wrote carries the
\* url of the stub.
C13_KeyUnique ==
    /\ \A n, m \in graph.nodes :
           (IsUrlNode(n) /\ IsUrlNode(m) /\ n[2] = m[2]) => n = m
    /\ (pc = "find" /\ cycles > 0) => last.url = url

\* A stub has been hydrated in place.
C13_Witness ==
    /\ pc = "find"
    /\ cycles > 0
    /\ <<"Species", SP1>> \in prev.ph
    /\ <<"Species", SP1>> \in graph.nodes \ graph.ph

\* C14: tag nodes are never work items. In every state no Director,
\* Producer, Manufacturer, Climate, Terrain, StarshipClass or VehicleClass
\* node carries the Placeholder label, and the selection never returns one.
C14_TagsNeverPlaceholder ==
    /\ \A n \in graph.nodes : n[1] \in TagKinds => n \notin graph.ph
    /\ label \notin TagKinds

\* Tag nodes of every kind exist while the loop is about to select.
C14_Witness ==
    /\ pc = "find"
    /\ \A k \in TagKinds : \E n \in graph.nodes : n[1] = k

\* The kinds of entity fetched from the API.
Kinds == {"Film", "Person", "Planet", "Species", "Starship", "Vehicle"}

\* C18: upsert is atomic on error. An upsert that raises, because its
\* document has no url or because a later clause of the query fails, leaves
\* the store exactly as it was before the call.
C18_AtomicOnError == ~lastOk => graph = prev

\* Both cases on a store that is not empty: a document without url, and a
\* person whose query fails at the homeworld MERGE after its SET clauses.
C18_Witness ==
    /\ ~lastOk
    /\ prev.nodes # {}
    /\ graph = prev
    /\ \/ last.url = Null
       \/ (last.kind = "Person" /\ last.url = P1 /\ last.homeworld = Null
              /\ <<"Person", P1>> \notin prev.nodes)

\* C19: each cycle hydrates the selected entity. After every drain cycle
\* whose fetch succeeded, the selected node <<label, url>> is in the store
\* without the Placeholder label, and it is the one node that lost the label
\* in the cycle.
C19_CycleHydratesSelected ==
    (cycles > 0 /\ pc # "body") =>
        /\ <<label, url>> \in graph.nodes \ graph.ph
        /\ prev.ph \ graph.ph = {<<label, url>>}

\* C20: upsert always leaves its entity hydrated. After upsert(K, D) of a
\* document that has a url, for each of the six kinds and from every store
\* state, the node <<K, D.url>> exists, carries D's scalar fields and has no
\* Placeholder label.
C20_UpsertHydrates ==
    (last.kind \in Kinds /\ last.url # Null) =>
        /\ lastOk
        /\ SelfOf(last) \in graph.nodes \ graph.ph
        /\ SelfOf(last) \in DOMAIN graph.props
        /\ graph.props[SelfOf(last)] = last.val

\* C15: resumability. When the notebook is interrupted between two seed
\* upserts or between two drain cycles and run again from the seeding, every
\* run that ends (the drain loop finds no Placeholder node) ends with the
\* store of an uninterrupted run, and the restart adds no failure: a query
\* raises only for the source graph where it raises without interruption.
C15_Resumable ==
    /\ pc = "done" => (graph = FinalGraph(world) /\ graph.ph = {})
    /\ pc = "raised" => world = "nohome"

\* A run that was interrupted in the seeding and again in the drain loop
\* has ended.
C15_Witness ==
    /\ pc = "done"
    /\ restarts = MaxRestarts
    /\ cycles > 0
    /\ graph = FinalGraph(world)

C17_UnknownKindContained ==
    (label # "none" /\ getQueryForLabel(label) = "ValueError" /\ pc # "body") =>
        /\ graph = prev
        /\ pc \in {"find", "done"}

\* A string without its leading and trailing spaces.
RECURSIVE LTrim(_)
LTrim(s) == IF s # <<>> /\ Head(s) = " " THEN LTrim(Tail(s)) ELSE s

RECURSIVE RTrim(_)
RTrim(s) == IF s # <<>> /\ s[Len(s)] = " " THEN RTrim(SubSeq(s, 1, Len(s) - 1)) ELSE s

Trim(s) == RTrim(LTrim(s))

\* The labels of the tag nodes made from a field the queries split.
SplitTagKinds == {"Director", "Producer", "Climate", "Terrain"}

\* The relationship a declared reference r of the most recent document has
\* to the target url u.
RefRel(r, u) ==
    IF r[4] THEN <<SelfOf(last), r[3], <<r[2], u>>>>
    ELSE <<<<r[2], u>>, r[3], SelfOf(last)>>

\* C21 (as claimed): reference fields are processed independently. After a
\* Person or Film document with an empty multi-valued reference field is
\* inserted, the empty field has added no relationship, and every url of
\* every other multi-valued reference field is a node connected to the
\* document's node.
C21_FieldsIndependent ==
    (lastOk /\ last.kind \in {"Person", "Film"}
        /\ \E r \in Declared(last.kind) : r[1] # "homeworld" /\ last[r[1]] = <<>>) =>
        \A r \in Declared(last.kind) : r[1] # "homeworld" =>
            /\ last[r[1]] = <<>> =>
                   \A x \in DOMAIN graph.rels \ DOMAIN prev.rels :
                       ~(\E n \in graph.nodes : n[1] = r[2] /\ x = RefRel(r, n[2]))
            /\ \A u \in Range(last[r[1]]) :
                   /\ <<r[2], u>> \in graph.nodes
                   /\ RefRel(r, u) \in DOMAIN graph.rels

\* C22 (as claimed): split values are trimmed. Every Director, Producer,
\* Climate and Terrain node is keyed by a value without leading or trailing
\* spaces, and after a Film document is inserted every name of its director
\* field is, trimmed, a Director node.
C22_SplitTrimmed ==
    /\ \A n \in graph.nodes : n[1] \in SplitTagKinds => Trim(n[2]) = n[2]
    /\ (lastOk /\ last.kind = "Film" /\ last.director # Null) =>
           \A name \in Names(last.director) :
               Trim(name) # <<>> => <<"Director", Trim(name)>> \in graph.nodes

\* C23 (as claimed): blank tag values are absent. No Director, Producer,
\* Climate or Terrain node has an empty name or a name of spaces only, and
\* no relationship ends at such a node.
C23_NoBlankTags ==
    /\ \A n \in graph.nodes : n[1] \in SplitTagKinds => Trim(n[2]) # <<>>
    /\ \A r \in DOMAIN graph.rels : r[3][1] \in SplitTagKinds => Trim(r[3][2]) # <<>>

\* C26 (as claimed): the manufacturer field is split. After a Starship or
\* Vehicle document is inserted, every name of its manufacturer field is a
\* Manufacturer node with a MANUFACTURED_BY relationship from the document's
\* node, and no Manufacturer node has a comma in its name.
C26_ManufacturerSplit ==
    /\ (lastOk /\ last.kind \in {"Starship", "Vehicle"}) =>
           \A name \in Names(last.manufacturer) :
               /\ <<"Manufacturer", name>> \in graph.nodes
               /\ <<SelfOf(last), "MANUFACTURED_BY", <<"Manufacturer", name>>>>
                      \in DOMAIN graph.rels
    /\ \A n \in graph.nodes : n[1] = "Manufacturer" => "," \notin Range(n[2])

\* C24: selection-order independence. Whatever order FIND_NEW_ENTITY_QUERY
\* returns the Placeholder nodes in, the store when the drain loop ends
\* (nodes, labels, Placeholder labels, properties, relationships) is the one
\* store the run with a fixed selection order ends with.
C24_OrderIndependent == (pc = "done") => (graph = FinalGraph(world))

\* The loop has ended after an order that left people/1, a stub since the
\* first film, for the last cycle.
C24_Witness ==
    /\ pc = "done"
    /\ last.url = P1
    /\ Cardinality(graph.nodes) > 10

\* Film n of the seeding loop is a hydrated Film node carrying its document.
FilmHydrated(n) ==
    /\ <<"Film", FilmUrl(n)>> \in graph.nodes \ graph.ph
    /\ <<"Film", FilmUrl(n)>> \in DOMAIN graph.props
    /\ graph.props[<<"Film", FilmUrl(n)>>] = Source(world, FilmUrl(n)).val

Dispatchable == {"Person", "Planet", "Species", "Starship", "Vehicle"}

\* C28: the selected kind is always dispatchable. In every state of seeding
\* and draining every Placeholder node has one of the five labels with a
\* query, the selection reports that label, and getQueryForLabel does not
\* raise ValueError.
C28_SelectedDispatchable ==
    /\ \A n \in graph.ph : n[1] \in Dispatchable
    /\ label \in Dispatchable \cup {"none"}
    /\ pc \in {"body", "raised"} => getQueryForLabel(label) # "ValueError"

\* A stub found during the drain has been selected.
C28_Witness ==
    /\ pc = "body"
    /\ label = "Vehicle"
    /\ url = V2
    /\ <<"Vehicle", V2>> \in graph.ph

====
